---- MODULE Spec2Model ----
(***************************************************************************)
(* Model of review_pr.js, the secure code review action: the diff          *)
(* collector (listChangedFiles and its helpers), the review client         *)
(* (callOpenAI), the comment publisher (upsertPRComment) and the top-level *)
(* run() with its catch block, driven by a wall clock and by the answers   *)
(* of the hosting platform and of the completion endpoint.                 *)
(*                                                                         *)
(* Text is represented as follows.                                         *)
(*  - A patch (any multi-line string) is the non-empty sequence of lines   *)
(*    that split("\n") yields for it; the empty string is <<"">>.          *)
(*  - A line is one of the strings of Lines; startsWith is decided by      *)
(*    the line's leading characters, tabulated in StartsWith.              *)
(*  - A filename is a sequence of tokens, each either "." or a piece of    *)
(*    dot-free text.                                                       *)
(***************************************************************************)
EXTENDS Integers, Sequences, FiniteSets, TLC

VARIABLES
  prFiles,      \* the pull request's changed files, in the platform's listing order
  capFiles,     \* Number(MAX_FILES)
  capLines,     \* Number(MAX_LINES)
  perFileCap,   \* Number(LINE_TRIM_PER_FILE)
  comments,     \* the pull request's comments, oldest first (a comment's id is its position)
  hasPR,        \* context.payload.pull_request?.number is truthy
  now,          \* Date.now(), in ms since the process started
  pc,           \* where run() stands
  page,         \* listChangedFiles: page
  files,        \* listChangedFiles: files
  totalLines,   \* listChangedFiles: totalLines
  pagesFetched, \* number of listFiles requests issued by this run
  err,          \* the error caught by run()'s catch block (String(err)), or NoErr
  inCatch,      \* control is inside run()'s catch block
  content,      \* upsertPRComment's content argument
  mine,         \* upsertPRComment: index of the comment found, 0 when none
  setFailed,    \* the argument core.setFailed was called with, or NoErr
  calls,        \* per kind of external call, how many this run has issued
  lateCalls,    \* the kinds of external call this run issued after the deadline
  timeUps,      \* how many times abortIfTimeUp threw in this run
  httpStatus,   \* the status the completion endpoint answered with (0: no answer)
  written,      \* the contents this run's completed create/update calls wrote, in order
  returned,     \* listChangedFiles has returned to run()
  runs          \* number of runs started so far

vars == <<prFiles, capFiles, capLines, perFileCap, comments, hasPR, now, pc, page,
          files, totalLines, pagesFetched, err, inCatch, content, mine, setFailed,
          calls, lateCalls, timeUps, httpStatus, written, returned, runs>>

Max(a, b) == IF a >= b THEN a ELSE b
Min(a, b) == IF a <= b THEN a ELSE b

(***************************************************************************)
(* Configuration (process.env defaults)                                    *)
(***************************************************************************)
TIME_BUDGET_SECONDS == 100
MAX_FILES == 30
MAX_LINES == 1200
LINE_TRIM_PER_FILE == 300
per_page == 100
commentsPerPage == 100

\* RISKY_EXTS.split(",").map(s => s.trim().toLowerCase()), one token per extension
riskySet ==
  { <<e>> : e \in {"js", "ts", "tsx", "jsx", "py", "go", "rb", "php", "java", "kt",
                   "cs", "rs", "swift", "c", "cc", "cpp", "h", "sql", "sh", "ps1",
                   "yml", "yaml", "json", "html", "htm", "css", "scss", "vue", "mdx"} }

started == 0
deadline == started + TIME_BUDGET_SECONDS * 1000

\* abortIfTimeUp throws exactly when this holds
TimeUp == now > deadline

(***************************************************************************)
(* Bounds of the model                                                     *)
(***************************************************************************)
MaxTail == 2          \* files of a short listing
MaxLongTail == 1      \* files listed after the padding of a long listing
MaxCap == 2           \* small caps tried besides the defaults
TickMs == 100000      \* how far one step of the clock advances
MaxTime == 200000     \* the clock stops advancing here
MaxRuns == 2          \* sequential runs against the pull request
MaxOtherPosts == 2    \* times other people comment on the pull request

(***************************************************************************)
(* Strings                                                                 *)
(***************************************************************************)
HunkLine == "@@ -1,3 +1,4 @@"
AddLine == "+added"
DelLine == "-removed"
CtxLine == " context"
NoNewline == "\\ No newline at end of file"
Lines == {HunkLine, AddLine, DelLine, CtxLine, NoNewline, ""}

\* l.startsWith(prefix), for the prefixes the code asks about
StartsWith(l, prefix) ==
  CASE prefix = "@@" -> l = HunkLine
    [] prefix = "+"  -> l = AddLine
    [] prefix = "-"  -> l = DelLine
    [] OTHER         -> FALSE

\* str.split("\n")
SplitLines(str) == str

\* lines.join("\n"): joining no lines gives the empty string
JoinLines(lines) == IF lines = <<>> THEN <<"">> ELSE lines

\* str.split("\n").length
LineCount(str) == Len(SplitLines(str))

\* str.trim() is the empty string: every line is empty (the lines kept by the
\* filter start with a visible character)
TrimIsEmpty(str) == \A i \in 1..Len(str) : str[i] = ""

\* s.toLowerCase(), token by token
LowerToken(t) ==
  CASE t = "JS" -> "js"
    [] t = "Main" -> "main"
    [] t = "README" -> "readme"
    [] t = "SH" -> "sh"
    [] OTHER -> t

toLowerCase(name) == [i \in 1..Len(name) |-> LowerToken(name[i])]

\* name.split(".").pop(): the tokens after the last ".", the whole name when
\* it holds no "."
SplitPop(name) ==
  LET dots == {i \in 1..Len(name) : name[i] = "."}
      last == IF dots = {} THEN 0 ELSE CHOOSE i \in dots : \A j \in dots : j <= i
  IN SubSeq(name, last + 1, Len(name))

(***************************************************************************)
(* Diff collector                                                          *)
(***************************************************************************)
NoPatch == <<>>   \* the platform sent no patch (f.patch == null)

\* line 235, without the test of the status
isBinaryOrLargePatchOnly(f) == f.patch = NoPatch

isBinaryOrLarge(f) == f.status = "removed" \/ f.patch = NoPatch

hasRiskyExt(filename) == SplitPop(toLowerCase(filename)) \in riskySet

\* lines.slice(0, limit)
SliceHead(lines, limit) == SubSeq(lines, 1, Min(Max(limit, 0), Len(lines)))

trimPatchLines(patch, limit) ==
  LET lines == SplitLines(patch)
      header == IF StartsWith(lines[1], "@@") THEN lines[1] ELSE ""
  IN IF Len(lines) <= limit THEN patch
     ELSE JoinLines(<<header>> \o SliceHead(lines, limit))

KeptLine(l) == StartsWith(l, "@@") \/ StartsWith(l, "+") \/ StartsWith(l, "-")

\* (f.patch || "").split("\n").filter(...).join("\n")
ReducePatch(patch) ==
  JoinLines(SelectSeq(SplitLines(IF patch = NoPatch THEN <<"">> ELSE patch), KeptLine))

CollectedFile(f, patch) ==
  [filename |-> f.filename, status |-> f.status, additions |-> f.additions,
   deletions |-> f.deletions, patch |-> patch]

\* one iteration of the inner loop of listChangedFiles on row f; st holds files,
\* totalLines and whether the loop has been left by a break
ScanStep(st, f) ==
  IF st.broke THEN st
  ELSE IF Len(st.files) >= capFiles THEN [st EXCEPT !.broke = TRUE]
  ELSE IF isBinaryOrLarge(f) \/ ~hasRiskyExt(f.filename) THEN st
  ELSE LET reduced == ReducePatch(f.patch) IN
    IF TrimIsEmpty(reduced) THEN st
    ELSE LET patch1 == trimPatchLines(reduced, perFileCap)
             patchLines == LineCount(patch1)
             over == st.totalLines + patchLines > capLines
             remaining == Max(0, capLines - st.totalLines)
         IN IF over /\ remaining = 0 THEN [st EXCEPT !.broke = TRUE]
            ELSE LET patch2 == IF over THEN trimPatchLines(patch1, remaining) ELSE patch1
                     total2 == st.totalLines + LineCount(patch2)
                     fs2 == Append(st.files, CollectedFile(f, patch2))
                 IN [files |-> fs2, totalLines |-> total2,
                     broke |-> Len(fs2) >= capFiles \/ total2 >= capLines]

\* the iterations on rows lo..hi of the page, in order: those on the first half
\* of the rows, then those on the second half from the state the first half left
RECURSIVE ScanRange(_, _, _, _)
ScanRange(data, lo, hi, st) ==
  IF lo > hi THEN st
  ELSE IF lo = hi THEN ScanStep(st, data[lo])
  ELSE CHOOSE r \in {ScanRange(data, (lo + hi) \div 2 + 1, hi, half) :
                       half \in {ScanRange(data, lo, (lo + hi) \div 2, st)}} : TRUE

\* the inner loop of listChangedFiles over one page
ScanPage(data, fs, total) ==
  ScanRange(data, 1, Len(data), [files |-> fs, totalLines |-> total, broke |-> FALSE])

\* octokit.rest.pulls.listFiles({per_page, page}): the page's rows
ListFilesPage(p) ==
  SubSeq(prFiles, (p - 1) * per_page + 1, Min(p * per_page, Len(prFiles)))

\* line 273: the outer loop ends after this page
StopPagingShortPageOnly(data, fs, total) == Len(data) < per_page

StopPaging(data, fs, total) ==
  Len(data) < per_page \/ Len(fs) >= capFiles \/ total >= capLines

(***************************************************************************)
(* Errors (String(err)) and comment contents                               *)
(***************************************************************************)
NoErr == "none"
ErrNoPR == "Error: This action must run on pull_request events."
ErrTimeUp == "Error: TIME_BUDGET_EXCEEDED"
ErrQuota == "Error: OPENAI_INSUFFICIENT_QUOTA"
ErrUpstream == "Error: OpenAI HTTP 500: internal error"
ErrUpstreamQuotaText == "Error: OpenAI HTTP 500: OPENAI_INSUFFICIENT_QUOTA"
ErrFetch == "FetchError: request to chat/completions failed"
ErrPrompt == "Error: ENOENT: no such file or directory, open 'prompt.txt'"
ErrGitHub == "HttpError: GitHub API request failed"

\* String(err).includes("OPENAI_INSUFFICIENT_QUOTA")
IncludesQuota(e) == e \in {ErrQuota, ErrUpstreamQuotaText}

NoEligible == "No eligible code changes."
NoOutput == "No output from model."
QuotaMsg == "Could not complete review: **API quota exceeded**. Add billing or use another provider."
GenericMsg == "Could not complete review: "
Analyses == {"", "analysis"}
Extras == {"", "GitLeaks Findings"}

\* a content is the sequence of its parts
GenericContent(e) == <<GenericMsg, e>>

\* [analysis || "No output from model.", extras].filter(Boolean).join("\n\n")
ReviewContent(analysis, extras) ==
  <<IF analysis = "" THEN NoOutput ELSE analysis>> \o (IF extras = "" THEN <<>> ELSE <<extras>>)

\* a comment body: whether it holds COMMENT_TAG, and the content it frames
BotBody(c) == [tag |-> TRUE, content |-> c]
OtherBody == [tag |-> FALSE, content |-> <<"a comment by someone else">>]

CallKinds == {"listFiles", "completion", "listComments", "write"}
NoCalls == [k \in CallKinds |-> 0]

\* an external call of kind k is issued now
Issue(k) ==
  /\ calls' = [calls EXCEPT ![k] = @ + 1]
  /\ lateCalls' = IF now > deadline THEN lateCalls \cup {k} ELSE lateCalls

\* an exception leaves the try block for the catch block, or leaves the catch
\* block and rejects run()'s promise
Throw(e) ==
  IF inCatch THEN pc' = "rejected" /\ err' = err
  ELSE pc' = "catch" /\ err' = e

(***************************************************************************)
(* Inputs: the changed files the platform lists                            *)
(***************************************************************************)
ChangedFile(name, status, adds, dels, patch) ==
  [filename |-> name, status |-> status, additions |-> adds, deletions |-> dels,
   patch |-> patch]

AppPy == ChangedFile(<<"app", ".", "py">>, "modified", 2, 1,
                     <<HunkLine, CtxLine, AddLine, AddLine, DelLine, CtxLine, NoNewline>>)
MainJS == ChangedFile(<<"src/", "Main", ".", "JS">>, "added", 1, 0, <<AddLine>>)
DotlessSh == ChangedFile(<<"sh">>, "renamed", 2, 1, <<AddLine, DelLine, AddLine>>)
OldGo == ChangedFile(<<"old", ".", "go">>, "removed", 0, 1, <<HunkLine, DelLine>>)
Readme == ChangedFile(<<"README", ".", "md">>, "modified", 1, 0, <<HunkLine, AddLine>>)
BigSql == ChangedFile(<<"dump", ".", "sql">>, "added", 9, 0, NoPatch)
CtxOnlyTs == ChangedFile(<<"types", ".", "d", ".", "ts">>, "modified", 0, 0,
                         <<CtxLine, "", CtxLine>>)
FileKinds == {AppPy, MainJS, DotlessSh, OldGo, Readme, BigSql, CtxOnlyTs}

\* n copies of f
Repeat(f, n) == [i \in 1..n |-> f]

Tails(n) == UNION {[1..k -> FileKinds] : k \in 0..n}

\* short listings: a single, partly filled page
ShortLists == Tails(MaxTail)

\* long listings: a page less one row, or a full page, of one file, then a tail
Paddings == {Repeat(f, n) : f \in {MainJS, Readme}, n \in {per_page - 1, per_page}}
LongLists == {pad \o tail : pad \in Paddings, tail \in Tails(MaxLongTail)}

\* the listings the whole pipeline is run on
PipelineFileLists ==
  {<<>>, <<AppPy>>, Repeat(Readme, per_page) \o <<OldGo, MainJS>>}

(***************************************************************************)
(* run(): from the start to the end of listChangedFiles                    *)
(***************************************************************************)
RunVarsReset ==
  /\ page' = 1
  /\ files' = <<>>
  /\ totalLines' = 0
  /\ pagesFetched' = 0
  /\ err' = NoErr
  /\ inCatch' = FALSE
  /\ content' = <<>>
  /\ mine' = 0
  /\ setFailed' = NoErr
  /\ calls' = NoCalls
  /\ lateCalls' = {}
  /\ timeUps' = 0
  /\ httpStatus' = 0
  /\ written' = <<>>
  /\ returned' = FALSE

\* the workflow starts the script in a fresh process
StartRun ==
  /\ pc \in {"idle", "done", "rejected"}
  /\ runs < MaxRuns
  /\ runs' = runs + 1
  /\ hasPR' \in BOOLEAN
  /\ now' = started
  /\ pc' = "getPRNumber"
  /\ RunVarsReset
  /\ UNCHANGED <<prFiles, capFiles, capLines, perFileCap, comments>>

getPRNumber ==
  /\ pc = "getPRNumber"
  /\ IF hasPR THEN pc' = "listFiles" /\ err' = err ELSE Throw(ErrNoPR)
  /\ UNCHANGED <<prFiles, capFiles, capLines, perFileCap, comments, hasPR, now, page,
                 files, totalLines, pagesFetched, inCatch, content, mine, setFailed,
                 calls, lateCalls, timeUps, httpStatus, written, returned, runs>>

\* abortIfTimeUp() throws at the head of the paging loop
ListFilesTimeUp ==
  /\ pc = "listFiles"
  /\ TimeUp
  /\ timeUps' = timeUps + 1
  /\ Throw(ErrTimeUp)
  /\ UNCHANGED <<prFiles, capFiles, capLines, perFileCap, comments, hasPR, now, page,
                 files, totalLines, pagesFetched, inCatch, content, mine, setFailed,
                 calls, lateCalls, httpStatus, written, returned, runs>>

\* abortIfTimeUp() passes and the page is requested
ListFilesIssue ==
  /\ pc = "listFiles"
  /\ ~TimeUp
  /\ Issue("listFiles")
  /\ pagesFetched' = pagesFetched + 1
  /\ pc' = "listFilesWait"
  /\ UNCHANGED <<prFiles, capFiles, capLines, perFileCap, comments, hasPR, now, page,
                 files, totalLines, err, inCatch, content, mine, setFailed,
                 timeUps, httpStatus, written, returned, runs>>

\* the page arrives and is scanned
ListFilesReturn ==
  /\ pc = "listFilesWait"
  /\ \E data \in {ListFilesPage(page)} :
     \E r \in {IF Len(data) = 0 THEN [files |-> files, totalLines |-> totalLines]
              ELSE ScanPage(data, files, totalLines)} :
     LET stop == Len(data) = 0 \/ StopPaging(data, r.files, r.totalLines)
     IN /\ files' = r.files
        /\ totalLines' = r.totalLines
        /\ page' = IF stop THEN page ELSE page + 1
        /\ returned' = stop
        /\ pc' = IF stop THEN "collected" ELSE "listFiles"
  /\ UNCHANGED <<prFiles, capFiles, capLines, perFileCap, comments, hasPR, now,
                 pagesFetched, err, inCatch, content, mine, setFailed, calls,
                 lateCalls, timeUps, httpStatus, written, runs>>

\* the listing request fails
ListFilesFail ==
  /\ pc = "listFilesWait"
  /\ Throw(ErrGitHub)
  /\ UNCHANGED <<prFiles, capFiles, capLines, perFileCap, comments, hasPR, now, page,
                 files, totalLines, pagesFetched, inCatch, content, mine, setFailed,
                 calls, lateCalls, timeUps, httpStatus, written, returned, runs>>

(***************************************************************************)
(* The diff collector alone, on every listing and every cap                *)
(***************************************************************************)
InitCollect ==
  /\ \/ /\ prFiles \in ShortLists
        /\ capFiles \in (1..MaxCap) \cup {MAX_FILES}
        /\ capLines \in (1..MaxCap + 1) \cup {MAX_LINES}
        /\ perFileCap \in (1..MaxCap) \cup {LINE_TRIM_PER_FILE}
     \/ /\ prFiles \in LongLists
        /\ capFiles \in {1, MAX_FILES, 2 * per_page}
        /\ capLines \in {MaxCap + 1, MAX_LINES}
        /\ perFileCap \in {1, LINE_TRIM_PER_FILE}
  /\ comments = <<>>
  /\ hasPR = TRUE
  /\ now = started
  /\ pc = "listFiles"
  /\ page = 1
  /\ files = <<>>
  /\ totalLines = 0
  /\ pagesFetched = 0
  /\ err = NoErr
  /\ inCatch = FALSE
  /\ content = <<>>
  /\ mine = 0
  /\ setFailed = NoErr
  /\ calls = NoCalls
  /\ lateCalls = {}
  /\ timeUps = 0
  /\ httpStatus = 0
  /\ written = <<>>
  /\ returned = FALSE
  /\ runs = 1

NextCollect == ListFilesIssue \/ ListFilesReturn

SpecCollect == InitCollect /\ [][NextCollect]_vars

(***************************************************************************)
(* run(): after listChangedFiles                                           *)
(***************************************************************************)
\* line 340, without the test for an empty result
BranchOnFilesAlwaysReview ==
  /\ pc = "collected"
  /\ pc' = "loadPrompt"
  /\ content' = content
  /\ UNCHANGED <<prFiles, capFiles, capLines, perFileCap, comments, hasPR, now, page,
                 files, totalLines, pagesFetched, err, inCatch, mine, setFailed,
                 calls, lateCalls, timeUps, httpStatus, written, returned, runs>>

\* lines 340-343: nothing to review, or on to the prompt
BranchOnFiles ==
  /\ pc = "collected"
  /\ IF Len(files) = 0
     THEN content' = <<NoEligible>> /\ pc' = "upsert"
     ELSE content' = content /\ pc' = "loadPrompt"
  /\ UNCHANGED <<prFiles, capFiles, capLines, perFileCap, comments, hasPR, now, page,
                 files, totalLines, pagesFetched, err, inCatch, mine, setFailed,
                 calls, lateCalls, timeUps, httpStatus, written, returned, runs>>

\* loadPrompt() reads prompt.txt; buildUserMessage(files) follows
LoadPrompt ==
  /\ pc = "loadPrompt"
  /\ pc' = "callOpenAI"
  /\ UNCHANGED <<prFiles, capFiles, capLines, perFileCap, comments, hasPR, now, page,
                 files, totalLines, pagesFetched, err, inCatch, content, mine,
                 setFailed, calls, lateCalls, timeUps, httpStatus, written, returned,
                 runs>>

\* prompt.txt cannot be read
LoadPromptFail ==
  /\ pc = "loadPrompt"
  /\ Throw(ErrPrompt)
  /\ UNCHANGED <<prFiles, capFiles, capLines, perFileCap, comments, hasPR, now, page,
                 files, totalLines, pagesFetched, inCatch, content, mine, setFailed,
                 calls, lateCalls, timeUps, httpStatus, written, returned, runs>>

\* callOpenAI: abortIfTimeUp() throws
CallOpenAITimeUp ==
  /\ pc = "callOpenAI"
  /\ TimeUp
  /\ timeUps' = timeUps + 1
  /\ Throw(ErrTimeUp)
  /\ UNCHANGED <<prFiles, capFiles, capLines, perFileCap, comments, hasPR, now, page,
                 files, totalLines, pagesFetched, inCatch, content, mine, setFailed,
                 calls, lateCalls, httpStatus, written, returned, runs>>

\* callOpenAI: abortIfTimeUp() passes and the request is sent
CallOpenAIIssue ==
  /\ pc = "callOpenAI"
  /\ ~TimeUp
  /\ Issue("completion")
  /\ pc' = "openAIWait"
  /\ UNCHANGED <<prFiles, capFiles, capLines, perFileCap, comments, hasPR, now, page,
                 files, totalLines, pagesFetched, err, inCatch, content, mine,
                 setFailed, timeUps, httpStatus, written, returned, runs>>

\* the endpoint answers 200; findings of the secret scan, if any, are appended
CallOpenAIReturnOk ==
  /\ pc = "openAIWait"
  /\ httpStatus' = 200
  /\ \E analysis \in Analyses, extras \in Extras :
       content' = ReviewContent(analysis, extras)
  /\ pc' = "upsert"
  /\ UNCHANGED <<prFiles, capFiles, capLines, perFileCap, comments, hasPR, now, page,
                 files, totalLines, pagesFetched, err, inCatch, mine, setFailed,
                 calls, lateCalls, timeUps, written, returned, runs>>

\* the endpoint answers 429, or another status that is not ok
CallOpenAIReturnError ==
  /\ pc = "openAIWait"
  /\ \E status \in {429, 500} :
       /\ httpStatus' = status
       /\ IF status = 429 THEN Throw(ErrQuota)
          ELSE \E e \in {ErrUpstream, ErrUpstreamQuotaText} : Throw(e)
  /\ UNCHANGED <<prFiles, capFiles, capLines, perFileCap, comments, hasPR, now, page,
                 files, totalLines, pagesFetched, inCatch, content, mine, setFailed,
                 calls, lateCalls, timeUps, written, returned, runs>>

\* fetch rejects (no answer)
CallOpenAIFail ==
  /\ pc = "openAIWait"
  /\ Throw(ErrFetch)
  /\ UNCHANGED <<prFiles, capFiles, capLines, perFileCap, comments, hasPR, now, page,
                 files, totalLines, pagesFetched, inCatch, content, mine, setFailed,
                 calls, lateCalls, timeUps, httpStatus, written, returned, runs>>

(***************************************************************************)
(* upsertPRComment, called from the try block and from the catch block     *)
(***************************************************************************)
\* abortIfTimeUp() throws
UpsertTimeUp ==
  /\ pc = "upsert"
  /\ TimeUp
  /\ timeUps' = timeUps + 1
  /\ Throw(ErrTimeUp)
  /\ UNCHANGED <<prFiles, capFiles, capLines, perFileCap, comments, hasPR, now, page,
                 files, totalLines, pagesFetched, inCatch, content, mine, setFailed,
                 calls, lateCalls, httpStatus, written, returned, runs>>

\* abortIfTimeUp() passes and the comments are requested
UpsertListIssue ==
  /\ pc = "upsert"
  /\ ~TimeUp
  /\ Issue("listComments")
  /\ pc' = "listCommentsWait"
  /\ UNCHANGED <<prFiles, capFiles, capLines, perFileCap, comments, hasPR, now, page,
                 files, totalLines, pagesFetched, err, inCatch, content, mine,
                 setFailed, timeUps, httpStatus, written, returned, runs>>

\* issues.listComments({per_page: 100}): the first page of the comments
ListedComments == SubSeq(comments, 1, Min(Len(comments), commentsPerPage))

\* comments.find(c => c.body?.includes(COMMENT_TAG)), as an index (0: undefined)
FindMine(listed) ==
  LET tagged == {i \in 1..Len(listed) : listed[i].tag}
  IN IF tagged = {} THEN 0 ELSE CHOOSE i \in tagged : \A j \in tagged : i <= j

\* the comments arrive; the update or the create is requested at once
UpsertListReturn ==
  /\ pc = "listCommentsWait"
  /\ mine' = FindMine(ListedComments)
  /\ Issue("write")
  /\ pc' = "writeWait"
  /\ UNCHANGED <<prFiles, capFiles, capLines, perFileCap, comments, hasPR, now, page,
                 files, totalLines, pagesFetched, err, inCatch, content, setFailed,
                 timeUps, httpStatus, written, returned, runs>>

\* the listing of the comments fails
UpsertListFail ==
  /\ pc = "listCommentsWait"
  /\ Throw(ErrGitHub)
  /\ UNCHANGED <<prFiles, capFiles, capLines, perFileCap, comments, hasPR, now, page,
                 files, totalLines, pagesFetched, inCatch, content, mine, setFailed,
                 calls, lateCalls, timeUps, httpStatus, written, returned, runs>>

\* where control goes when upsertPRComment returns
AfterUpsert == IF inCatch THEN "setFailed" ELSE "done"

\* the update or create succeeds
UpsertWriteReturn ==
  /\ pc = "writeWait"
  /\ comments' = IF mine # 0 THEN [comments EXCEPT ![mine] = BotBody(content)]
                 ELSE Append(comments, BotBody(content))
  /\ written' = Append(written, content)
  /\ pc' = AfterUpsert
  /\ UNCHANGED <<prFiles, capFiles, capLines, perFileCap, hasPR, now, page, files,
                 totalLines, pagesFetched, err, inCatch, content, mine, setFailed,
                 calls, lateCalls, timeUps, httpStatus, returned, runs>>

\* the update or create fails, and is requested again
UpsertWriteFailRetry ==
  /\ pc = "writeWait"
  /\ calls["write"] < 4
  /\ Issue("write")
  /\ pc' = "writeWait"
  /\ err' = err
  /\ UNCHANGED <<prFiles, capFiles, capLines, perFileCap, comments, hasPR, now, page,
                 files, totalLines, pagesFetched, inCatch, content, mine, setFailed,
                 timeUps, httpStatus, written, returned, runs>>

\* the update or create fails
UpsertWriteFail ==
  /\ pc = "writeWait"
  /\ Throw(ErrGitHub)
  /\ UNCHANGED <<prFiles, capFiles, capLines, perFileCap, comments, hasPR, now, page,
                 files, totalLines, pagesFetched, inCatch, content, mine, setFailed,
                 calls, lateCalls, timeUps, httpStatus, written, returned, runs>>

(***************************************************************************)
(* run(): the catch block                                                  *)
(***************************************************************************)
\* lines 356-361: which comment to post, if any
Catch ==
  /\ pc = "catch"
  /\ inCatch' = TRUE
  /\ IF IncludesQuota(err) /\ hasPR THEN content' = <<QuotaMsg>> /\ pc' = "upsert"
     ELSE IF hasPR THEN content' = GenericContent(err) /\ pc' = "upsert"
     ELSE content' = content /\ pc' = "setFailed"
  /\ UNCHANGED <<prFiles, capFiles, capLines, perFileCap, comments, hasPR, now, page,
                 files, totalLines, pagesFetched, err, mine, setFailed, calls,
                 lateCalls, timeUps, httpStatus, written, returned, runs>>

\* line 362: core.setFailed(String(err))
SetFailed ==
  /\ pc = "setFailed"
  /\ setFailed' = err
  /\ pc' = "done"
  /\ UNCHANGED <<prFiles, capFiles, capLines, perFileCap, comments, hasPR, now, page,
                 files, totalLines, pagesFetched, err, inCatch, content, mine, calls,
                 lateCalls, timeUps, httpStatus, written, returned, runs>>

(***************************************************************************)
(* Environment                                                             *)
(***************************************************************************)
InRun == pc \notin {"idle", "done", "rejected"}

\* time passes while the run is under way
Tick ==
  /\ InRun
  /\ now + TickMs <= MaxTime
  /\ now' = now + TickMs
  /\ UNCHANGED <<prFiles, capFiles, capLines, perFileCap, comments, hasPR, pc, page,
                 files, totalLines, pagesFetched, err, inCatch, content, mine,
                 setFailed, calls, lateCalls, timeUps, httpStatus, written, returned,
                 runs>>

\* how many times other people have posted, one comment or a burst at a time
OtherPosts ==
  LET others == Cardinality({i \in 1..Len(comments) : ~comments[i].tag})
  IN (others \div (commentsPerPage - 1)) + (others % (commentsPerPage - 1))

\* between runs, other people comment on the pull request: one comment, or a
\* burst that leaves one free row on the first page of the comments
OtherComments ==
  /\ ~InRun
  /\ OtherPosts < MaxOtherPosts
  /\ \E n \in {1, commentsPerPage - 1} :
       comments' = comments \o Repeat(OtherBody, n)
  /\ UNCHANGED <<prFiles, capFiles, capLines, perFileCap, hasPR, now, pc, page, files,
                 totalLines, pagesFetched, err, inCatch, content, mine, setFailed,
                 calls, lateCalls, timeUps, httpStatus, written, returned, runs>>

(***************************************************************************)
(* The whole pipeline, run after run on one pull request                   *)
(***************************************************************************)
Init ==
  /\ prFiles \in PipelineFileLists
  /\ capFiles = MAX_FILES
  /\ capLines = MAX_LINES
  /\ perFileCap = LINE_TRIM_PER_FILE
  /\ comments = <<>>
  /\ hasPR = TRUE
  /\ now = started
  /\ pc = "idle"
  /\ page = 1
  /\ files = <<>>
  /\ totalLines = 0
  /\ pagesFetched = 0
  /\ err = NoErr
  /\ inCatch = FALSE
  /\ content = <<>>
  /\ mine = 0
  /\ setFailed = NoErr
  /\ calls = NoCalls
  /\ lateCalls = {}
  /\ timeUps = 0
  /\ httpStatus = 0
  /\ written = <<>>
  /\ returned = FALSE
  /\ runs = 0

Next ==
  \/ StartRun
  \/ getPRNumber
  \/ ListFilesTimeUp
  \/ ListFilesIssue
  \/ ListFilesReturn
  \/ ListFilesFail
  \/ BranchOnFiles
  \/ LoadPrompt
  \/ LoadPromptFail
  \/ CallOpenAITimeUp
  \/ CallOpenAIIssue
  \/ CallOpenAIReturnOk
  \/ CallOpenAIReturnError
  \/ CallOpenAIFail
  \/ UpsertTimeUp
  \/ UpsertListIssue
  \/ UpsertListReturn
  \/ UpsertListFail
  \/ UpsertWriteReturn
  \/ UpsertWriteFail
  \/ Catch
  \/ SetFailed
  \/ Tick
  \/ OtherComments

Spec == Init /\ [][Next]_vars

(***************************************************************************)
(* Properties of the diff collector (checked under SpecCollect)            *)
(***************************************************************************)
\* the text after the final "." of a name (the whole name when it holds none)
RECURSIVE AfterFinalDot(_)
AfterFinalDot(name) ==
  IF \A i \in 1..Len(name) : name[i] # "." THEN name
  ELSE AfterFinalDot(Tail(name))

\* the file is one the collector is to keep
Eligible(f) ==
  /\ f.status # "removed"
  /\ f.patch # NoPatch
  /\ toLowerCase(AfterFinalDot(f.filename)) \in riskySet
  /\ \E i \in 1..Len(f.patch) :
       StartsWith(f.patch[i], "@@") \/ StartsWith(f.patch[i], "+") \/ StartsWith(f.patch[i], "-")

\* what a collected file keeps of the listed file, the patch aside
Listed(f) == <<f.filename, f.status, f.additions, f.deletions>>

RECURSIVE SumLines(_, _, _)
SumLines(fs, lo, hi) ==
  IF lo > hi THEN 0
  ELSE IF lo = hi THEN LineCount(fs[lo].patch)
  ELSE SumLines(fs, lo, (lo + hi) \div 2) + SumLines(fs, (lo + hi) \div 2 + 1, hi)

\* the lines the first m files of elig take once each is cut to the per-file cap
RECURSIVE PlannedLines(_, _, _)
PlannedLines(elig, lo, hi) ==
  IF lo > hi THEN 0
  ELSE IF lo = hi THEN LineCount(trimPatchLines(ReducePatch(elig[lo].patch), perFileCap))
  ELSE PlannedLines(elig, lo, (lo + hi) \div 2) + PlannedLines(elig, (lo + hi) \div 2 + 1, hi)

\* C1: the patches listChangedFiles returns hold at most capLines lines in all
\* (and so does totalLines), and each holds at most perFileCap lines.
C1_CapsRespected ==
  returned =>
    /\ SumLines(files, 1, Len(files)) <= capLines
    /\ totalLines <= capLines
    /\ \A k \in 1..Len(files) : LineCount(files[k].patch) <= perFileCap

\* C3: every file listChangedFiles returns is a listed file that was not
\* removed, carried a patch, has an allow-listed extension (the text after the
\* final ".", compared without regard to case) and a non-empty reduced patch.
C3_OnlyEligibleReturned ==
  \A ok \in {{Listed(prFiles[i]) : i \in {j \in 1..Len(prFiles) : Eligible(prFiles[j])}}} :
    \A k \in 1..Len(files) : Listed(files[k]) \in ok

C3_Witness ==
  /\ returned
  /\ Len(files) >= 1
  /\ \E i, j \in 1..Len(prFiles) :
       i < j /\ ~Eligible(prFiles[i]) /\ Listed(prFiles[j]) = Listed(files[1])

\* C9: the files returned are a prefix, in listing order, of the eligible files
\* and never more than capFiles; when the aggregate cap does not bind they are
\* exactly the first min(capFiles, number eligible); a further page is
\* requested only after a full page that reached no cap, and the collector
\* returns only on a cap or a page shorter than the page size.
C9_PrefixOfEligible ==
  \A elig \in {SelectSeq(prFiles, Eligible)} :
    /\ Len(files) <= capFiles
    /\ Len(files) <= Len(elig)
    /\ \A k \in 1..Len(files) : Listed(files[k]) = Listed(elig[k])
    /\ returned /\ ( \/ totalLines < capLines
                     \/ PlannedLines(elig, 1, Min(capFiles, Len(elig))) <= capLines )
         => Len(files) = Min(capFiles, Len(elig))
    /\ pagesFetched = IF pc = "listFiles" THEN page - 1 ELSE page
    /\ pc \in {"listFiles", "listFilesWait"} /\ page > 1
         => /\ Len(files) < capFiles
            /\ totalLines < capLines
            /\ (page - 1) * per_page <= Len(prFiles)
    /\ returned
         => \/ Len(files) >= capFiles
            \/ totalLines >= capLines
            \/ Len(ListFilesPage(page)) < per_page

\* more eligible files than the default file cap: the first MAX_FILES are returned
C9_Witness ==
  /\ returned
  /\ capFiles = MAX_FILES
  /\ Len(files) = MAX_FILES
  /\ Len(SelectSeq(prFiles, Eligible)) > MAX_FILES
  /\ totalLines < capLines

(***************************************************************************)
(* Properties of the pipeline (checked under Spec)                         *)
(***************************************************************************)
Ended == pc \in {"done", "rejected"}

Tagged == {i \in 1..Len(comments) : comments[i].tag}

\* C2: the pull request never carries two marker-tagged comments, and once a
\* run that wrote a comment is over, exactly one comment carries the marker and
\* its body is the one that run wrote last.
C2_SingleMarkerComment ==
  /\ Cardinality(Tagged) <= 1
  /\ pc = "done" /\ written # <<>>
       => \E i \in Tagged : Tagged = {i} /\ comments[i].content = written[Len(written)]

\* C4: no external call is issued after the deadline.
C4_NoCallPastDeadline == lateCalls = {}

\* C5: a run in which a stage failed ends with core.setFailed called with the
\* error, and run() never rejects.
C5_FailureAlwaysSignalled ==
  /\ pc # "rejected"
  /\ pc = "done" /\ err # NoErr => setFailed = err

\* C6: after an answer 429 the run writes the quota comment and signals
\* failure; after another answer that is not ok it writes the generic comment
\* with the status and body and signals failure.
C6_QuotaCommentThenFailure ==
  Ended =>
    /\ httpStatus = 429 => written = << <<QuotaMsg>> >> /\ setFailed = ErrQuota
    /\ httpStatus \notin {0, 200, 429}
         => /\ err \in {ErrUpstream, ErrUpstreamQuotaText}
            /\ written = <<GenericContent(err)>>
            /\ setFailed = err

\* C7 as claimed: when the collector returns no files the run writes "No
\* eligible code changes.", ends without signalling failure and issues no
\* completion request; a completion request follows a non-empty collection.
C7_EmptyAlwaysPosted ==
  /\ Ended /\ returned /\ Len(files) = 0
       => pc = "done" /\ written = << <<NoEligible>> >> /\ setFailed = NoErr
  /\ returned /\ Len(files) = 0 => calls["completion"] = 0
  /\ calls["completion"] > 0 => returned /\ Len(files) > 0

\* C7 as amended: when the collector returns no files the run issues no
\* completion request and, until something fails, the only content it hands to
\* upsertPRComment is "No eligible code changes."; if nothing fails the run
\* ends with that content in the marker-tagged comment, nothing else written
\* and no failure signalled. A completion request follows a non-empty collection.
C7_EmptyPostedUnlessUpsertFails ==
  /\ returned /\ Len(files) = 0
       => /\ calls["completion"] = 0
          /\ err = NoErr /\ pc # "collected" => content = <<NoEligible>>
          /\ Ended /\ err = NoErr
               => /\ pc = "done"
                  /\ written = << <<NoEligible>> >>
                  /\ setFailed = NoErr
                  /\ \E i \in Tagged : comments[i].content = <<NoEligible>>
  /\ calls["completion"] > 0 => returned /\ Len(files) > 0

C7_Witness ==
  /\ pc = "done"
  /\ returned
  /\ Len(files) = 0
  /\ written = << <<NoEligible>> >>
  /\ setFailed = NoErr

\* C8: a run in which abortIfTimeUp threw writes the generic failure comment
\* naming the error and then signals failure.
C8_TimeUpReported ==
  Ended /\ timeUps > 0
    => /\ written # <<>>
       /\ written[Len(written)] = GenericContent(ErrTimeUp)
       /\ setFailed = ErrTimeUp

\* C10 as claimed: in a run the completion request, the comment listing and
\* the comment create-or-update are each issued at most once.
C10_EachCallAtMostOnce ==
  /\ calls["completion"] <= 1
  /\ calls["listComments"] <= 1
  /\ calls["write"] <= 1

\* C10 as amended: the completion request is issued at most once; the comment
\* listing and the create-or-update are each issued at most once by the try
\* block and at most once more by the catch block; each page of files is
\* requested once; at most one create-or-update succeeds.
C10_AtMostOncePerBlock ==
  /\ calls["completion"] <= 1
  /\ calls["listComments"] <= (IF inCatch THEN 2 ELSE 1)
  /\ calls["write"] <= (IF inCatch THEN 2 ELSE 1)
  /\ calls["write"] <= calls["listComments"]
  /\ calls["listFiles"] = pagesFetched
  /\ pagesFetched <= page
  /\ Len(written) <= 1

C10_Witness ==
  /\ pc = "done"
  /\ calls["listComments"] = 2
  /\ calls["write"] = 2
  /\ Len(written) = 1

====
